---- MODULE Spec2Model ----
(***************************************************************************)
(* Model of classy-lambda-common's script helpers:                         *)
(*   - runPipes  (src/src/utils/ScriptHelpers.ts:183-242), the pipeline    *)
(*     lifecycle: factory, wiring, completion watcher, setup, teardown;    *)
(*   - the Config built by runScript (ScriptHelpers.ts:69-157) and by      *)
(*     AWSConfig (src/src/aws/AWSConfig.js:8-18).                          *)
(* JavaScript runs one synchronous stretch at a time: every action below   *)
(* is one such stretch (up to the next await or the end of a callback).    *)
(***************************************************************************)
EXTENDS Integers, Sequences, FiniteSets, TLC

\* Longest transforms array the factory returns in the model.
MaxTransforms == 2
\* Most 'finish' events a (misbehaving) terminal stage emits in the model.
MaxFinish == 2
\* Most connection pools LocalDBFactories.get builds in the model.
MaxPools == 2

VARIABLES
    pc,            \* where the async script function of runPipes stands
    pipeline,      \* what the factory returned: source?, transforms?, sink?
    transforms,    \* the local `transforms` (its length) after `transforms = []`
    i,             \* the wiring loop's index
    pipes,         \* the pipe() calls made so far, in order, as <<from, to>>
    finalStream,   \* the local finalStream, NoStage for undefined
    watching,      \* the stage carrying runPipes' 'finish' listener
    called,        \* the single-use flag
    outcome,       \* the state of the promise of line 195
    settleCalls,   \* how many times resolve() or reject() was called
    runError,      \* the error the promise was rejected with
    setupState,    \* the setup hook's call
    teardownCalls, \* how many times teardown was invoked
    finishCount,   \* 'finish' events emitted by the watched stage
    stageError,    \* a stage has emitted 'error'
    crashed,       \* the process died of an unhandled 'error' event
    logged,        \* what runScript's catch printed
    stage,         \* the validated --stage option
    sources,       \* the Config's ordered DataSources, by name
    cfgState,      \* Uninitialized, Initializing, Ready or Failed
    initIdx,       \* the position Config's initialization loop stands at
    srcState,      \* per position: new, initializing, ready or failed
    environment,   \* ScriptEnvironment's environment: the keys it holds
    secrets,       \* the keys Credstash holds
    dbPc,          \* where LocalDBFactories.initialize stands
    port,          \* LocalDBFactories' port: <<>> for undefined, else <<n>>
    user,          \* LocalDBFactories' user
    password,      \* LocalDBFactories' password
    dbReads,       \* the keys LocalDBFactories.initialize has asked the Config for
    cfgError,      \* the source whose error the initialization rejected with
    query,         \* the last config.get: who asked, the key, the answer
    pools,         \* connection pools built so far by LocalDBFactories.get
    scriptPc,      \* runScript: start, usage (printed, returned), threw, running
    opt,           \* the parsed options: --stage, and whether argValidator objects
    scriptCalled,  \* the script function has been invoked
    awsProfile     \* process.env.AWS_PROFILE

pipeVars == <<pc, pipeline, transforms, i, pipes, finalStream, watching, called,
              outcome, settleCalls, runError, setupState, teardownCalls,
              finishCount, stageError, crashed, logged>>

cfgVars == <<stage, sources, cfgState, initIdx, srcState, environment, secrets,
             dbPc, port, user, password, dbReads, cfgError, query, pools>>

scriptVars == <<scriptPc, opt, scriptCalled, awsProfile>>

vars == <<pipeVars, cfgVars, scriptVars>>

----------------------------------------------------------------------------
\* Stages of a pipeline

Source == <<"source", 0>>
Sink == <<"sink", 0>>
Transform(k) == <<"transform", k>>
NoStage == <<"none", 0>>

\* interface Pipeline: every member is optional
Pipelines ==
    { p \in [source : BOOLEAN, hasTransforms : BOOLEAN,
             nTransforms : 0..MaxTransforms, sink : BOOLEAN] :
        ~p.hasTransforms => p.nTransforms = 0 }

NoPipeline == [source |-> FALSE, hasTransforms |-> FALSE, nTransforms |-> 0,
               sink |-> FALSE]

\* The process lives and the script function is suspended at an await, or
\* over: callbacks may run.
Idle == ~crashed /\ pc \in {"await", "teardown", "done", "failed"}

\* resolve() and reject() of a promise: only the first call settles it.
Settled(how) == IF outcome = "pending" THEN how ELSE outcome

----------------------------------------------------------------------------
\* runPipes

PipeInit ==
    /\ pc = "factory"
    /\ pipeline = NoPipeline
    /\ transforms = 0
    /\ i = 0
    /\ pipes = <<>>
    /\ finalStream = NoStage
    /\ watching = NoStage
    /\ called = FALSE
    /\ outcome = "pending"
    /\ settleCalls = 0
    /\ runError = "none"
    /\ setupState = "notcalled"
    /\ teardownCalls = 0
    /\ finishCount = 0
    /\ stageError = FALSE
    /\ crashed = FALSE
    /\ logged = "none"

\* const pipeline = await factory(config, args, context): the factory resolves
FactoryResolve ==
    /\ pc = "factory"
    /\ \E p \in Pipelines : pipeline' = p
    /\ pc' = "init"
    /\ UNCHANGED <<transforms, i, pipes, finalStream, watching, called, outcome,
                   settleCalls, runError, setupState, teardownCalls, finishCount,
                   stageError, crashed, logged>>
    /\ UNCHANGED <<cfgVars, scriptVars>>

\* a factory rejection that is logged and then run as an empty pipeline
FactoryRejectContinues ==
    /\ pc = "factory"
    /\ pc' = "init"
    /\ logged' = "factoryError"
    /\ UNCHANGED <<pipeline, transforms, i, pipes, finalStream, watching, called,
                   outcome, settleCalls, runError, setupState, teardownCalls,
                   finishCount, stageError, crashed>>
    /\ UNCHANGED <<cfgVars, scriptVars>>

\* the factory rejects: the script function rejects, runScript's catch logs it
FactoryReject ==
    /\ pc = "factory"
    /\ pc' = "failed"
    /\ logged' = "factoryError"
    /\ UNCHANGED <<pipeline, transforms, i, pipes, finalStream, watching, called,
                   outcome, settleCalls, runError, setupState, teardownCalls,
                   finishCount, stageError, crashed>>
    /\ UNCHANGED <<cfgVars, scriptVars>>

\* let called = false; if (!transforms) transforms = []; i = 0
ExecInit ==
    /\ pc = "init"
    /\ called' = FALSE
    /\ transforms' = IF pipeline.hasTransforms THEN pipeline.nTransforms ELSE 0
    /\ i' = 0
    /\ pc' = "wire"
    /\ UNCHANGED <<pipeline, pipes, finalStream, watching, outcome, settleCalls,
                   runError, setupState, teardownCalls, finishCount, stageError,
                   crashed, logged>>
    /\ UNCHANGED <<cfgVars, scriptVars>>

\* one turn of the for loop
WireStep ==
    /\ pc = "wire"
    /\ i < transforms
    /\ pipes' = IF i = 0
                THEN IF pipeline.source
                     THEN Append(pipes, <<Source, Transform(i)>>)
                     ELSE pipes
                ELSE Append(pipes, <<Transform(i - 1), Transform(i)>>)
    /\ i' = i + 1
    /\ UNCHANGED <<pc, pipeline, transforms, finalStream, watching, called,
                   outcome, settleCalls, runError, setupState, teardownCalls,
                   finishCount, stageError, crashed, logged>>
    /\ UNCHANGED <<cfgVars, scriptVars>>

\* the loop ends; let finalStream = transforms.length > 0 ? last : undefined
WireDone ==
    /\ pc = "wire"
    /\ i >= transforms
    /\ finalStream' = IF transforms > 0 THEN Transform(transforms - 1) ELSE NoStage
    /\ pc' = "final"
    /\ UNCHANGED <<pipeline, transforms, i, pipes, watching, called, outcome,
                   settleCalls, runError, setupState, teardownCalls, finishCount,
                   stageError, crashed, logged>>
    /\ UNCHANGED <<cfgVars, scriptVars>>

\* a SinkStep that forgets the source -> sink connection
SinkStepNoSourcePipe ==
    /\ pc = "final"
    /\ finalStream' = IF pipeline.sink THEN Sink ELSE finalStream
    /\ pipes' = IF pipeline.sink /\ transforms > 0
                THEN Append(pipes, <<Transform(transforms - 1), Sink>>)
                ELSE pipes
    /\ pc' = "watch"
    /\ UNCHANGED <<pipeline, transforms, i, watching, called, outcome,
                   settleCalls, runError, setupState, teardownCalls, finishCount,
                   stageError, crashed, logged>>
    /\ UNCHANGED <<cfgVars, scriptVars>>

\* if (sink) { finalStream = sink; pipe the last transform, else the source }
SinkStep ==
    /\ pc = "final"
    /\ finalStream' = IF pipeline.sink THEN Sink ELSE finalStream
    /\ pipes' = IF pipeline.sink
                THEN IF transforms > 0
                     THEN Append(pipes, <<Transform(transforms - 1), Sink>>)
                     ELSE IF pipeline.source
                          THEN Append(pipes, <<Source, Sink>>)
                          ELSE pipes
                ELSE pipes
    /\ pc' = "watch"
    /\ UNCHANGED <<pipeline, transforms, i, watching, called, outcome,
                   settleCalls, runError, setupState, teardownCalls, finishCount,
                   stageError, crashed, logged>>
    /\ UNCHANGED <<cfgVars, scriptVars>>

\* a WatchStep that signals completion at once whatever the stages
WatchStepAlwaysResolve ==
    /\ pc = "watch"
    /\ watching' = finalStream
    /\ called' = TRUE
    /\ outcome' = Settled("resolved")
    /\ settleCalls' = settleCalls + 1
    /\ pc' = "setup"
    /\ UNCHANGED <<pipeline, transforms, i, pipes, finalStream, runError,
                   setupState, teardownCalls, finishCount, stageError, crashed,
                   logged>>
    /\ UNCHANGED <<cfgVars, scriptVars>>

\* a WatchStep that does nothing when there is no final stream
WatchStepNoImmediate ==
    /\ pc = "watch"
    /\ watching' = finalStream
    /\ pc' = "setup"
    /\ UNCHANGED <<pipeline, transforms, i, pipes, finalStream, called, outcome,
                   settleCalls, runError, setupState, teardownCalls, finishCount,
                   stageError, crashed, logged>>
    /\ UNCHANGED <<cfgVars, scriptVars>>

\* a WatchStep that registers no listener
WatchStepNoListener ==
    /\ pc = "watch"
    /\ pc' = "setup"
    /\ UNCHANGED <<pipeline, transforms, i, pipes, finalStream, watching, called,
                   outcome, settleCalls, runError, setupState, teardownCalls,
                   finishCount, stageError, crashed, logged>>
    /\ UNCHANGED <<cfgVars, scriptVars>>

\* a WatchStep that, having signalled completion, returns without calling setup
WatchStepSkipSetup ==
    /\ pc = "watch"
    /\ IF finalStream # NoStage
       THEN /\ watching' = finalStream
            /\ pc' = "setup"
            /\ UNCHANGED <<called, outcome, settleCalls>>
       ELSE /\ watching' = watching
            /\ pc' = "await"
            /\ called' = TRUE
            /\ outcome' = Settled("resolved")
            /\ settleCalls' = settleCalls + 1
    /\ UNCHANGED <<pipeline, transforms, i, pipes, finalStream, runError,
                   setupState, teardownCalls, finishCount, stageError, crashed,
                   logged>>
    /\ UNCHANGED <<cfgVars, scriptVars>>

\* if (finalStream) finalStream.on('finish', ...) else if (!called) resolve()
WatchStep ==
    /\ pc = "watch"
    /\ IF finalStream # NoStage
       THEN /\ watching' = finalStream
            /\ UNCHANGED <<called, outcome, settleCalls>>
       ELSE /\ watching' = watching
            /\ IF ~called
               THEN /\ called' = TRUE
                    /\ outcome' = Settled("resolved")
                    /\ settleCalls' = settleCalls + 1
               ELSE UNCHANGED <<called, outcome, settleCalls>>
    /\ pc' = "setup"
    /\ UNCHANGED <<pipeline, transforms, i, pipes, finalStream, runError,
                   setupState, teardownCalls, finishCount, stageError, crashed,
                   logged>>
    /\ UNCHANGED <<cfgVars, scriptVars>>

\* the catch block: if (!called) { called = true; reject(e) }
Catch ==
    IF ~called
    THEN /\ called' = TRUE
         /\ runError' = IF outcome = "pending" THEN "setupError" ELSE runError
         /\ outcome' = Settled("rejected")
         /\ settleCalls' = settleCalls + 1
    ELSE UNCHANGED <<called, outcome, settleCalls, runError>>

\* await setup(config, args, context, pipeline): the call returns a pending
\* promise, or throws before returning one; then the script function awaits
\* the promise of line 195
CallSetup ==
    /\ pc = "setup"
    /\ \E threw \in BOOLEAN :
          IF threw
          THEN setupState' = "threw" /\ Catch
          ELSE /\ setupState' = "pending"
               /\ UNCHANGED <<called, outcome, settleCalls, runError>>
    /\ pc' = "await"
    /\ UNCHANGED <<pipeline, transforms, i, pipes, finalStream, watching,
                   teardownCalls, finishCount, stageError, crashed, logged>>
    /\ UNCHANGED <<cfgVars, scriptVars>>

\* the setup hook's promise resolves: the executor ends
SetupResolve ==
    /\ Idle
    /\ setupState = "pending"
    /\ setupState' = "resolved"
    /\ UNCHANGED <<pc, pipeline, transforms, i, pipes, finalStream, watching,
                   called, outcome, settleCalls, runError, teardownCalls,
                   finishCount, stageError, crashed, logged>>
    /\ UNCHANGED <<cfgVars, scriptVars>>

\* the setup hook's promise rejects: the catch block runs
SetupReject ==
    /\ Idle
    /\ setupState = "pending"
    /\ setupState' = "rejected"
    /\ Catch
    /\ UNCHANGED <<pc, pipeline, transforms, i, pipes, finalStream, watching,
                   teardownCalls, finishCount, stageError, crashed, logged>>
    /\ UNCHANGED <<cfgVars, scriptVars>>

\* a 'finish' listener without the flag
OnFinishNoFlag ==
    /\ Idle
    /\ watching # NoStage
    /\ finishCount < MaxFinish
    /\ finishCount' = finishCount + 1
    /\ called' = TRUE
    /\ outcome' = Settled("resolved")
    /\ settleCalls' = settleCalls + 1
    /\ UNCHANGED <<pc, pipeline, transforms, i, pipes, finalStream, watching,
                   runError, setupState, teardownCalls, stageError, crashed,
                   logged>>
    /\ UNCHANGED <<cfgVars, scriptVars>>

\* the watched stage emits 'finish': if (!called) { called = true; resolve() }
OnFinish ==
    /\ Idle
    /\ watching # NoStage
    /\ finishCount < MaxFinish
    /\ finishCount' = finishCount + 1
    /\ IF ~called
       THEN /\ called' = TRUE
            /\ outcome' = Settled("resolved")
            /\ settleCalls' = settleCalls + 1
       ELSE UNCHANGED <<called, outcome, settleCalls>>
    /\ UNCHANGED <<pc, pipeline, transforms, i, pipes, finalStream, watching,
                   runError, setupState, teardownCalls, stageError, crashed,
                   logged>>
    /\ UNCHANGED <<cfgVars, scriptVars>>

HasStage == pipeline.source \/ transforms > 0 \/ pipeline.sink

\* a stage emits 'error' once setup has been called. runPipes registers no
\* 'error' listener: with no listener at all the event is thrown and the
\* process dies; with a listener of the stage's own nothing reaches runPipes.
StageError ==
    /\ Idle
    /\ setupState # "notcalled"
    /\ HasStage
    /\ ~stageError
    /\ stageError' = TRUE
    /\ \E dies \in BOOLEAN : crashed' = dies
    /\ UNCHANGED <<pc, pipeline, transforms, i, pipes, finalStream, watching,
                   called, outcome, settleCalls, runError, setupState,
                   teardownCalls, finishCount, logged>>
    /\ UNCHANGED <<cfgVars, scriptVars>>

\* the promise of line 195 has settled and the script function resumes:
\* on success line 240 invokes teardown, on rejection the await throws
ResumeRun ==
    /\ ~crashed
    /\ pc = "await"
    /\ outcome # "pending"
    /\ IF outcome = "resolved"
       THEN /\ teardownCalls' = teardownCalls + 1
            /\ pc' = "teardown"
            /\ logged' = logged
       ELSE /\ teardownCalls' = teardownCalls
            /\ pc' = "failed"
            /\ logged' = runError
    /\ UNCHANGED <<pipeline, transforms, i, pipes, finalStream, watching, called,
                   outcome, settleCalls, runError, setupState, finishCount,
                   stageError, crashed>>
    /\ UNCHANGED <<cfgVars, scriptVars>>

\* await teardown(...) resolves: the script function is over
TeardownResolve ==
    /\ ~crashed
    /\ pc = "teardown"
    /\ pc' = "done"
    /\ UNCHANGED <<pipeline, transforms, i, pipes, finalStream, watching, called,
                   outcome, settleCalls, runError, setupState, teardownCalls,
                   finishCount, stageError, crashed, logged>>
    /\ UNCHANGED <<cfgVars, scriptVars>>

\* await teardown(...) rejects: runScript's catch logs it
TeardownReject ==
    /\ ~crashed
    /\ pc = "teardown"
    /\ pc' = "failed"
    /\ logged' = "teardownError"
    /\ UNCHANGED <<pipeline, transforms, i, pipes, finalStream, watching, called,
                   outcome, settleCalls, runError, setupState, teardownCalls,
                   finishCount, stageError, crashed>>
    /\ UNCHANGED <<cfgVars, scriptVars>>

----------------------------------------------------------------------------
\* The Config and its DataSources

\* the stages runScript accepts
Stages == {"int", "staging", "prod"}

\* a list with Credstash ahead of ScriptEnvironment
ScriptSourcesCredstashFirst ==
    <<"Credstash", "ScriptEnvironment", "Clients", "LocalDBFactories">>

\* the DataSources of runScript's Config, in list order
ScriptSources ==
    <<"ScriptEnvironment", "Credstash", "Clients", "LocalDBFactories">>

\* the DataSources of AWSConfig, in list order
AWSSources == <<"Environment", "Credstash", "Clients", "Logging", "Replacer">>

\* the keys LocalDBFactories.initialize reads besides 'stage'
DbKeys == {"CLASSY_DB_USERNAME", "CLASSY_DB_PASSWORD"}

ProdPort == 9306
StagingPort == 8306

\* the keys asked for in the model: the last is held by no source
Keys == {"stage", "CLASSY_DB_USERNAME", "CLASSY_DB_PASSWORD", "stayClassyDB",
         "missingKey"}

\* no config.get has been made yet
NoQuery == [by |-> 0, key |-> "none", result |-> "undefined", handle |-> 0]

\* new Config([...]): the list is stored, nothing is initialized
ConfigNew ==
    /\ stage \in Stages
    /\ sources \in {ScriptSources, AWSSources}
    /\ cfgState = "Uninitialized"
    /\ initIdx = 0
    /\ srcState = [k \in 1..Len(sources) |-> "new"]
    /\ environment = {}
    /\ secrets = {}
    /\ dbPc = "idle"
    /\ port = <<>>
    /\ user = "undefined"
    /\ password = "undefined"
    /\ dbReads = <<>>
    /\ cfgError = "none"
    /\ query = NoQuery
    /\ pools = 0

Position(name) == CHOOSE k \in 1..Len(sources) : sources[k] = name

Initializing(name) ==
    \E k \in 1..Len(sources) : sources[k] = name /\ srcState[k] = "initializing"

\* a ScriptEnvironment.get whose default is a value: _.get(..., key, '')
ScriptEnvironmentGetEmptyDefault(key) ==
    IF key = "stage" THEN stage
    ELSE IF key \in environment THEN "envValue" ELSE "emptyString"

\* ScriptEnvironment.get
ScriptEnvironmentGet(key) ==
    IF key = "stage" THEN stage
    ELSE IF key \in environment THEN "envValue" ELSE "null"

\* LocalDBFactories.get
LocalDBFactoriesGet(key) ==
    IF key = "stayClassyDB" THEN "pool" ELSE "undefined"

\* get(key) of the source called name; Credstash answers the secrets it has
\* loaded, the other collaborators hold none of the keys of the model
SourceGet(name, key) ==
    IF name = "ScriptEnvironment" THEN ScriptEnvironmentGet(key)
    ELSE IF name = "LocalDBFactories" THEN LocalDBFactoriesGet(key)
    ELSE IF name = "Credstash" /\ key \in secrets THEN "secretValue"
    ELSE "undefined"

\* an answer Config.get takes for a value
IsDefined(v) == v \notin {"undefined", "null"}

\* Config.get(key): the answer of the first source, in list order, that
\* answers with a defined value; absent when none does
ConfigGet(key) ==
    LET hits == { k \in 1..Len(sources) : IsDefined(SourceGet(sources[k], key)) }
    IN  IF hits = {} THEN "undefined"
        ELSE SourceGet(sources[CHOOSE k \in hits : \A j \in hits : k <= j], key)

\* Config.get(key) calls get(key) on the source called name: no source before
\* it has answered with a defined value
Reached(name, key) ==
    \E k \in 1..Len(sources) :
        /\ sources[k] = name
        /\ \A j \in 1..(k - 1) : ~IsDefined(SourceGet(sources[j], key))

\* LocalDBFactories.get('stayClassyDB') runs mysql.createPool on every call
CreatesPool(key) == key = "stayClassyDB" /\ Reached("LocalDBFactories", key)

\* the record of config.get(key) asked by the source at position by (0: by the
\* script); handle numbers the pool returned, 0 when the answer is no pool
Asked(by, key) ==
    [by |-> by, key |-> key, result |-> ConfigGet(key),
     handle |-> IF CreatesPool(key) THEN pools + 1 ELSE 0]

\* config.get(key) and its effect on the sources
DoQuery(by, key) ==
    /\ CreatesPool(key) => pools < MaxPools
    /\ query' = Asked(by, key)
    /\ pools' = IF CreatesPool(key) THEN pools + 1 ELSE pools

\* a collaborator's source reads a key of the Config during its initialize
ExternalQuery ==
    /\ \E k \in 1..Len(sources), key \in Keys :
          /\ sources[k] \in {"Environment", "Credstash", "Clients", "Logging",
                              "Replacer"}
          /\ srcState[k] = "initializing"
          /\ DoQuery(k, key)
    /\ UNCHANGED <<stage, sources, cfgState, initIdx, srcState, environment,
                   secrets, dbPc, port, user, password, dbReads, cfgError>>
    /\ UNCHANGED <<pipeVars, scriptVars>>

\* the script reads a key of the initialized Config
Get ==
    /\ cfgState = "Ready"
    /\ \E key \in Keys : DoQuery(0, key)
    /\ UNCHANGED <<stage, sources, cfgState, initIdx, srcState, environment,
                   secrets, dbPc, port, user, password, dbReads, cfgError>>
    /\ UNCHANGED <<pipeVars, scriptVars>>

\* an initialization that calls initialize on every source at once
InitializeAllParallel ==
    /\ cfgState = "Uninitialized"
    /\ cfgState' = "Initializing"
    /\ initIdx' = 1
    /\ srcState' = [k \in 1..Len(sources) |-> "initializing"]
    /\ dbPc' = IF \E k \in 1..Len(sources) : sources[k] = "LocalDBFactories"
               THEN "getStage" ELSE dbPc
    /\ UNCHANGED <<stage, sources, environment, secrets, port, user, password>>
    /\ UNCHANGED <<pipeVars, scriptVars>>
    /\ UNCHANGED <<dbReads, cfgError, query, pools>>

\* Config's initialization begins: initialize(this) is called on the first
\* source, which runs up to its first await
InitializeAll ==
    /\ cfgState = "Uninitialized"
    /\ cfgState' = "Initializing"
    /\ initIdx' = 1
    /\ srcState' = [srcState EXCEPT ![1] = "initializing"]
    /\ dbPc' = IF sources[1] = "LocalDBFactories" THEN "getStage" ELSE dbPc
    /\ UNCHANGED <<stage, sources, environment, secrets, port, user, password>>
    /\ UNCHANGED <<pipeVars, scriptVars>>
    /\ UNCHANGED <<dbReads, cfgError, query, pools>>

\* ScriptEnvironment.initialize: the stage's entries of environment.json and
\* env.yml are merged into this.environment; a malformed file throws
ScriptEnvironmentInitialize ==
    /\ Initializing("ScriptEnvironment")
    /\ \E ok \in BOOLEAN, env \in SUBSET DbKeys :
          IF ok
          THEN /\ environment' = env
               /\ srcState' = [srcState EXCEPT
                                 ![Position("ScriptEnvironment")] = "ready"]
          ELSE /\ environment' = environment
               /\ srcState' = [srcState EXCEPT
                                 ![Position("ScriptEnvironment")] = "failed"]
    /\ UNCHANGED <<stage, sources, cfgState, initIdx, secrets, dbPc, port, user,
                   password>>
    /\ UNCHANGED <<pipeVars, scriptVars>>
    /\ UNCHANGED <<dbReads, cfgError, query, pools>>

\* the sources whose code is a collaborator's
External == {"Environment", "Credstash", "Clients", "Logging", "Replacer"}

\* initialize of a collaborator's source resolves; Credstash has then loaded
\* its secrets
ExternalResolve ==
    /\ \E k \in 1..Len(sources) :
          /\ sources[k] \in External
          /\ srcState[k] = "initializing"
          /\ srcState' = [srcState EXCEPT ![k] = "ready"]
          /\ IF sources[k] = "Credstash"
             THEN \E held \in SUBSET DbKeys : secrets' = held
             ELSE secrets' = secrets
    /\ UNCHANGED <<stage, sources, cfgState, initIdx, environment, dbPc, port,
                   user, password>>
    /\ UNCHANGED <<pipeVars, scriptVars>>
    /\ UNCHANGED <<dbReads, cfgError, query, pools>>

\* initialize of a collaborator's source rejects
ExternalReject ==
    /\ \E k \in 1..Len(sources) :
          /\ sources[k] \in External
          /\ srcState[k] = "initializing"
          /\ srcState' = [srcState EXCEPT ![k] = "failed"]
    /\ UNCHANGED <<stage, sources, cfgState, initIdx, environment, secrets, dbPc,
                   port, user, password>>
    /\ UNCHANGED <<pipeVars, scriptVars>>
    /\ UNCHANGED <<dbReads, cfgError, query, pools>>

\* a switch that, like the one for AWS_PROFILE, treats int as staging
PortOfIntAsStaging(s) ==
    IF s = "prod" THEN <<ProdPort>>
    ELSE IF s \in {"int", "staging"} THEN <<StagingPort>>
    ELSE <<>>

\* the port of a stage: switch (await config.get('stage'))
PortOf(s) ==
    IF s = "prod" THEN <<ProdPort>>
    ELSE IF s = "staging" THEN <<StagingPort>>
    ELSE <<>>

\* LocalDBFactories.initialize resumes with config.get('stage'): the port is
\* set, or config.get('stage') is awaited again for the error message
DbGotStage ==
    /\ Initializing("LocalDBFactories")
    /\ dbPc = "getStage"
    /\ IF PortOf(ConfigGet("stage")) = <<>>
       THEN /\ dbPc' = "noPort"
            /\ port' = port
       ELSE /\ dbPc' = "getUser"
            /\ port' = PortOf(ConfigGet("stage"))
    /\ UNCHANGED <<stage, sources, cfgState, initIdx, srcState, environment,
                   secrets, user, password>>
    /\ UNCHANGED <<pipeVars, scriptVars>>
    /\ dbReads' = Append(dbReads, "stage")
    /\ query' = Asked(Position("LocalDBFactories"), "stage")
    /\ UNCHANGED <<cfgError, pools>>

\* a DbThrow whose error is swallowed: initialize resolves all the same
DbThrowSwallowed ==
    /\ Initializing("LocalDBFactories")
    /\ dbPc = "noPort"
    /\ dbPc' = "threw"
    /\ srcState' = [srcState EXCEPT ![Position("LocalDBFactories")] = "ready"]
    /\ UNCHANGED <<stage, sources, cfgState, initIdx, environment, secrets, port,
                   user, password>>
    /\ UNCHANGED <<pipeVars, scriptVars>>
    /\ dbReads' = Append(dbReads, "stage")
    /\ query' = Asked(Position("LocalDBFactories"), "stage")
    /\ UNCHANGED <<cfgError, pools>>

\* throw new Error(`No port for stage ...`)
DbThrow ==
    /\ Initializing("LocalDBFactories")
    /\ dbPc = "noPort"
    /\ dbPc' = "threw"
    /\ srcState' = [srcState EXCEPT ![Position("LocalDBFactories")] = "failed"]
    /\ UNCHANGED <<stage, sources, cfgState, initIdx, environment, secrets, port,
                   user, password>>
    /\ UNCHANGED <<pipeVars, scriptVars>>
    /\ dbReads' = Append(dbReads, "stage")
    /\ query' = Asked(Position("LocalDBFactories"), "stage")
    /\ UNCHANGED <<cfgError, pools>>

\* this.user = await config.get('CLASSY_DB_USERNAME')
DbGotUser ==
    /\ Initializing("LocalDBFactories")
    /\ dbPc = "getUser"
    /\ user' = ConfigGet("CLASSY_DB_USERNAME")
    /\ dbPc' = "getPassword"
    /\ UNCHANGED <<stage, sources, cfgState, initIdx, srcState, environment,
                   secrets, port, password>>
    /\ UNCHANGED <<pipeVars, scriptVars>>
    /\ dbReads' = Append(dbReads, "CLASSY_DB_USERNAME")
    /\ query' = Asked(Position("LocalDBFactories"), "CLASSY_DB_USERNAME")
    /\ UNCHANGED <<cfgError, pools>>

\* this.password = await config.get('CLASSY_DB_PASSWORD'); initialize resolves
DbGotPassword ==
    /\ Initializing("LocalDBFactories")
    /\ dbPc = "getPassword"
    /\ password' = ConfigGet("CLASSY_DB_PASSWORD")
    /\ dbPc' = "done"
    /\ srcState' = [srcState EXCEPT ![Position("LocalDBFactories")] = "ready"]
    /\ UNCHANGED <<stage, sources, cfgState, initIdx, environment, secrets, port,
                   user>>
    /\ UNCHANGED <<pipeVars, scriptVars>>
    /\ dbReads' = Append(dbReads, "CLASSY_DB_PASSWORD")
    /\ query' = Asked(Position("LocalDBFactories"), "CLASSY_DB_PASSWORD")
    /\ UNCHANGED <<cfgError, pools>>

\* the awaited initialize has resolved: the loop calls initialize on the next
\* source, or ends and the Config is Ready
Advance ==
    /\ cfgState = "Initializing"
    /\ srcState[initIdx] = "ready"
    /\ IF initIdx < Len(sources)
       THEN /\ initIdx' = initIdx + 1
            /\ srcState' = [srcState EXCEPT ![initIdx + 1] = "initializing"]
            /\ dbPc' = IF sources[initIdx + 1] = "LocalDBFactories"
                       THEN "getStage" ELSE dbPc
            /\ cfgState' = cfgState
       ELSE /\ cfgState' = "Ready"
            /\ UNCHANGED <<initIdx, srcState, dbPc>>
    /\ UNCHANGED <<stage, sources, environment, secrets, port, user, password>>
    /\ UNCHANGED <<pipeVars, scriptVars>>
    /\ UNCHANGED <<dbReads, cfgError, query, pools>>

\* the awaited initialize has rejected: the initialization rejects
Abort ==
    /\ cfgState = "Initializing"
    /\ srcState[initIdx] = "failed"
    /\ cfgState' = "Failed"
    /\ UNCHANGED <<stage, sources, initIdx, srcState, environment, secrets, dbPc,
                   port, user, password>>
    /\ UNCHANGED <<pipeVars, scriptVars>>
    /\ cfgError' = sources[initIdx]
    /\ UNCHANGED <<dbReads, query, pools>>

ConfigNext ==
    \/ InitializeAll
    \/ ScriptEnvironmentInitialize
    \/ ExternalResolve
    \/ ExternalReject
    \/ DbGotStage
    \/ DbThrow
    \/ DbGotUser
    \/ DbGotPassword
    \/ Advance
    \/ Abort
    \/ ExternalQuery
    \/ Get

----------------------------------------------------------------------------
\* runScript

\* what --stage may hold: nothing, an accepted stage, anything else
StageOptions == {"", "int", "staging", "prod", "bogus"}

\* switch (stage): process.env['AWS_PROFILE']
ProfileOf(s) == IF s = "prod" THEN "prod-pay" ELSE "classy-test"

\* runScript has not been called
ScriptStart ==
    /\ scriptPc = "start"
    /\ opt = [stage |-> "", badArgs |-> FALSE]
    /\ scriptCalled = FALSE
    /\ awsProfile = "unset"

\* no Config exists
ConfigNone ==
    /\ stage = "unset"
    /\ sources = <<>>
    /\ cfgState = "None"
    /\ initIdx = 0
    /\ srcState = <<>>
    /\ environment = {}
    /\ secrets = {}
    /\ dbPc = "idle"
    /\ port = <<>>
    /\ user = "undefined"
    /\ password = "undefined"
    /\ dbReads = <<>>
    /\ cfgError = "none"
    /\ query = NoQuery
    /\ pools = 0

\* runScript has built the Config of the state and called the script function
ScriptRunning ==
    /\ scriptPc = "running"
    /\ opt = [stage |-> stage, badArgs |-> FALSE]
    /\ scriptCalled = TRUE
    /\ awsProfile = ProfileOf(stage)

\* a runScript that does not look at what argValidator returned
RunScriptNoValidator ==
    /\ scriptPc = "start"
    /\ \E o \in [stage : StageOptions, badArgs : BOOLEAN] :
          /\ opt' = o
          /\ IF o.stage = ""
             THEN /\ scriptPc' = "usage"
                  /\ UNCHANGED <<awsProfile, scriptCalled, stage, sources,
                                 cfgState, srcState>>
             ELSE IF o.stage \notin Stages
             THEN /\ scriptPc' = "threw"
                  /\ UNCHANGED <<awsProfile, scriptCalled, stage, sources,
                                 cfgState, srcState>>
             ELSE /\ awsProfile' = ProfileOf(o.stage)
                  /\ stage' = o.stage
                  /\ sources' = ScriptSources
                  /\ cfgState' = "Uninitialized"
                  /\ srcState' = [k \in 1..Len(ScriptSources) |-> "new"]
                  /\ scriptCalled' = TRUE
                  /\ scriptPc' = "running"
    /\ UNCHANGED <<initIdx, environment, secrets, dbPc, port, user, password,
                   dbReads, cfgError, query, pools>>
    /\ UNCHANGED pipeVars

\* runScript, from the parsed options to the call of the script function:
\* one synchronous stretch
RunScript ==
    /\ scriptPc = "start"
    /\ \E o \in [stage : StageOptions, badArgs : BOOLEAN] :
          /\ opt' = o
          /\ IF o.stage = ""
             THEN /\ scriptPc' = "usage"
                  /\ UNCHANGED <<awsProfile, scriptCalled, stage, sources,
                                 cfgState, srcState>>
             ELSE IF o.stage \notin Stages
             THEN /\ scriptPc' = "threw"
                  /\ UNCHANGED <<awsProfile, scriptCalled, stage, sources,
                                 cfgState, srcState>>
             ELSE /\ awsProfile' = ProfileOf(o.stage)
                  /\ IF o.badArgs
                     THEN /\ scriptPc' = "usage"
                          /\ UNCHANGED <<scriptCalled, stage, sources, cfgState,
                                         srcState>>
                     ELSE /\ stage' = o.stage
                          /\ sources' = ScriptSources
                          /\ cfgState' = "Uninitialized"
                          /\ srcState' = [k \in 1..Len(ScriptSources) |-> "new"]
                          /\ scriptCalled' = TRUE
                          /\ scriptPc' = "running"
    /\ UNCHANGED <<initIdx, environment, secrets, dbPc, port, user, password,
                   dbReads, cfgError, query, pools>>
    /\ UNCHANGED pipeVars

\* the script function's promise resolves
ScriptResolve ==
    /\ scriptPc = "running"
    /\ scriptPc' = "finished"
    /\ UNCHANGED <<opt, scriptCalled, awsProfile>>
    /\ UNCHANGED <<pipeVars, cfgVars>>

\* the script function's promise rejects: .catch(e => console.error(e))
ScriptReject ==
    /\ scriptPc = "running"
    /\ scriptPc' = "finished"
    /\ logged' = "scriptError"
    /\ UNCHANGED <<pc, pipeline, transforms, i, pipes, finalStream, watching,
                   called, outcome, settleCalls, runError, setupState,
                   teardownCalls, finishCount, stageError, crashed>>
    /\ UNCHANGED <<opt, scriptCalled, awsProfile>>
    /\ UNCHANGED cfgVars

ScriptInit == PipeInit /\ ConfigNone /\ ScriptStart

ScriptNext ==
    \/ RunScript
    \/ ScriptResolve
    \/ ScriptReject
    \/ InitializeAll
    \/ ScriptEnvironmentInitialize
    \/ ExternalResolve
    \/ ExternalReject
    \/ DbGotStage
    \/ DbThrow
    \/ DbGotUser
    \/ DbGotPassword
    \/ Advance
    \/ Abort
    \/ ExternalQuery
    \/ Get

----------------------------------------------------------------------------
Init == PipeInit /\ ConfigNew /\ ScriptRunning

Next ==
    \/ FactoryResolve
    \/ FactoryReject
    \/ ExecInit
    \/ WireStep
    \/ WireDone
    \/ SinkStep
    \/ WatchStep
    \/ CallSetup
    \/ SetupResolve
    \/ SetupReject
    \/ OnFinish
    \/ StageError
    \/ ResumeRun
    \/ TeardownResolve
    \/ TeardownReject

\* a run of runPipes
Spec == Init /\ [][Next]_vars

\* the initialization of a Config
ConfigSpec == Init /\ [][ConfigNext]_vars

\* runScript and the Config it builds
ScriptSpec == ScriptInit /\ [][ScriptNext]_vars

----------------------------------------------------------------------------
\* What the claims speak of

\* [source, ...transforms, sink] with the absent stages removed
Chain(p) ==
    (IF p.source THEN <<Source>> ELSE <<>>)
        \o [k \in 1..p.nTransforms |-> Transform(k - 1)]
        \o (IF p.sink THEN <<Sink>> ELSE <<>>)

AdjacentPairs(s) == { <<s[k], s[k + 1]>> : k \in 1..(Len(s) - 1) }

Range(s) == { s[k] : k \in 1..Len(s) }

\* the last stage present
LastStage(p) == IF Chain(p) = <<>> THEN NoStage ELSE Chain(p)[Len(Chain(p))]

\* the wiring code (lines 198-218) has run
Wired == pc \notin {"factory", "init", "wire", "final"}

SetupCalled == setupState # "notcalled"

SetupFailed == setupState \in {"threw", "rejected"}

SinkOnly == pipeline.sink /\ ~pipeline.source /\ pipeline.nTransforms = 0

NoStages == pc # "factory" /\ Chain(pipeline) = <<>>

\* C1: once the run has settled and the script function has moved on from
\* awaiting it, teardown has been invoked exactly once, whether the run settled
\* as a success or as an error.
C1_TeardownOnceAfterSettlement ==
    (outcome # "pending" /\ pc \in {"teardown", "done", "failed"})
        => teardownCalls = 1

\* C2: the run settles at most once. The first of {finish, setup error} fixes
\* the outcome (finish: success, setup error: rejection); no later signal calls
\* resolve or reject again or changes the outcome or its error.
C2_SettlesAtMostOnce ==
    [][ /\ settleCalls' <= 1
        /\ (outcome # "pending" => outcome' = outcome /\ runError' = runError)
        /\ (outcome = "pending" /\ finishCount' > finishCount
              => outcome' = "resolved")
        /\ (outcome = "pending" /\ ~SetupFailed /\ SetupFailed'
              => outcome' = "rejected" /\ runError' = "setupError") ]_vars

\* C2's case: the setup hook failed first and the terminal stage finished
\* afterwards, twice.
C2_Witness == outcome = "rejected" /\ finishCount = MaxFinish

\* C3: for every pipeline shape, when the setup hook has failed and no finish
\* event has been emitted, the run is rejected, and what runScript's catch
\* reports is that error.
C3_SetupErrorRejects ==
    (SetupFailed /\ finishCount = 0)
        => /\ outcome = "rejected"
           /\ (pc = "failed" => logged = "setupError")

\* C4: a stage's 'error' event that arrives after setup was called, while the
\* run is unsettled, settles the run as a rejection.
C4_RuntimeErrorRejects ==
    [][ (~stageError /\ stageError' /\ SetupCalled /\ outcome = "pending")
          => outcome' = "rejected" ]_vars

\* C5: once the completion watcher has been placed, the watched stage is the
\* last stage present: the sink, else the last transform, else the source;
\* none only when the pipeline has no stage.
C5_WatchedIsLastStage ==
    SetupCalled => watching = LastStage(pipeline)

\* C6: the pipe connections made are exactly the adjacent pairs of the chain
\* of present stages, each made once, upstream to downstream; while wiring,
\* no connection outside that set is made.
C6_PipesAreAdjacentPairs ==
    /\ Range(pipes) \subseteq AdjacentPairs(Chain(pipeline))
    /\ Wired => /\ Range(pipes) = AdjacentPairs(Chain(pipeline))
                /\ Len(pipes) = Cardinality(AdjacentPairs(Chain(pipeline)))

\* C6's case: source, two transforms and sink, wired.
C6_Witness ==
    /\ pipeline.source /\ pipeline.sink /\ pipeline.nTransforms = 2
    /\ Wired
    /\ Len(pipes) = 3

\* C7: whenever setup has been invoked, the factory has returned, every
\* adjacent pair is connected, and the completion watcher is registered (or,
\* with no final stream, completion has been signalled).
C7_WiredBeforeSetup ==
    SetupCalled
        => /\ pc # "factory"
           /\ Range(pipes) = AdjacentPairs(Chain(pipeline))
           /\ watching = finalStream
           /\ (watching # NoStage \/ settleCalls = 1)

\* C7's case: setup is running on a wired pipeline with a watched sink.
C7_Witness ==
    /\ setupState = "pending"
    /\ pipeline.source /\ pipeline.sink /\ pipeline.nTransforms = 1
    /\ watching = Sink

\* C8 as stated: a sink-only pipeline has completed successfully, with no pipe
\* connection, as soon as the executor has run (setup has been called).
C8_SinkOnlyCompletesImmediately ==
    (SinkOnly /\ SetupCalled) => (outcome = "resolved" /\ pipes = <<>>)

\* C8 amended: a sink-only pipeline makes no pipe connection; the sink carries
\* the completion watcher and the run succeeds only once the sink has emitted
\* 'finish'; teardown is invoked once the script function resumes from that
\* success.
C8_SinkOnlyWaitsForFinish ==
    SinkOnly
        => /\ pipes = <<>>
           /\ (SetupCalled => watching = Sink)
           /\ (outcome = "resolved" => finishCount >= 1)
           /\ (pc \in {"teardown", "done"}
                 => outcome = "resolved" /\ teardownCalls = 1)

\* C8's case: the sink finished, the run succeeded and teardown ran.
C8_Witness ==
    SinkOnly /\ pc = "done" /\ finishCount = 1 /\ teardownCalls = 1

\* C9: with no stage at all, completion has been signalled as a success by the
\* time setup is called, no stage is watched and no stage event is awaited;
\* once the script function resumes, teardown has been invoked once.
C9_EmptyCompletesImmediately ==
    (NoStages /\ SetupCalled)
        => /\ outcome = "resolved"
           /\ watching = NoStage
           /\ finishCount = 0
           /\ (pc # "await" => teardownCalls = 1)

\* C9's case: an empty transforms array, nothing else, and teardown has run.
C9_Witness ==
    /\ NoStages /\ pipeline.hasTransforms
    /\ pc = "done"
    /\ teardownCalls = 1

\* C10: a source's initialize is called only when every source before it is
\* ready, so at most one source is initializing at any time; LocalDBFactories
\* reads 'stage' and the credentials with the three sources before it ready.
C10_SequentialInitialization ==
    /\ \A k \in 1..Len(sources) :
          srcState[k] # "new" => \A j \in 1..(k - 1) : srcState[j] = "ready"
    /\ Cardinality({ k \in 1..Len(sources) : srcState[k] = "initializing" }) <= 1
    /\ cfgState = "Ready" => \A k \in 1..Len(sources) : srcState[k] = "ready"

\* C10's case: LocalDBFactories, last of four, has initialized with the
\* credentials Credstash loaded before it.
C10_Witness ==
    /\ sources = ScriptSources
    /\ cfgState = "Ready"
    /\ user = "secretValue"
    /\ password = "secretValue"

\* some source's initialize has failed
SomeFailed == \E k \in 1..Len(sources) : srcState[k] = "failed"

\* C11: when the initialize of the source at position k has failed, every
\* source before it is ready and every source after it was never initialized;
\* the initialization is not Ready, and once it has rejected it carries that
\* source's error; nothing is retried: no source changes state any more. The
\* throw of LocalDBFactories.initialize is such a failure.
C11_FailureAbortsInitialization ==
    /\ [](\A k \in 1..Len(sources) :
            srcState[k] = "failed"
                => /\ \A j \in 1..(k - 1) : srcState[j] = "ready"
                   /\ \A j \in (k + 1)..Len(sources) : srcState[j] = "new"
                   /\ cfgState \in {"Initializing", "Failed"}
                   /\ (cfgState = "Failed" => cfgError = sources[k]))
    /\ [](cfgState = "Failed" => SomeFailed)
    /\ [](dbPc = "threw" => srcState[Position("LocalDBFactories")] = "failed")
    /\ [][SomeFailed => (srcState' = srcState /\ cfgState' # "Ready")]_vars

\* C11's case: the second of four sources failed, the initialization rejected
\* with its error and the sources after it are untouched.
C11_Witness ==
    /\ sources = ScriptSources
    /\ srcState[2] = "failed"
    /\ srcState[4] = "new"
    /\ cfgState = "Failed"
    /\ cfgError = "Credstash"

\* the script has asked the initialized Config for a key
ScriptAsked == cfgState = "Ready" /\ query.by = 0 /\ query.key # "none"

\* the positions whose source answers key with a defined value
Defining(key) ==
    { k \in 1..Len(sources) : IsDefined(SourceGet(sources[k], key)) }

C14_ScriptGetsReadyConfig == scriptCalled => cfgState = "Ready"

\* runScript has looked at its arguments and found them wanting
ArgumentError == scriptPc # "start" /\ (opt.stage \notin Stages \/ opt.badArgs)

Holds(name, key) ==
    \/ name = "ScriptEnvironment" /\ (key = "stage" \/ key \in environment)
    \/ name = "Credstash" /\ key \in secrets
    \/ name = "LocalDBFactories" /\ key = "stayClassyDB"

C17_GetIsPureLookup ==
    [][ cfgState = "Ready"
          => /\ pools' = pools
             /\ (query.by = 0 /\ query'.key = query.key => query' = query) ]_vars

\* C18 as stated: teardown is invoked only after setup was invoked, and not
\* while the setup call is still pending.
C18_TeardownAfterSetupSettled ==
    teardownCalls > 0 => setupState \notin {"notcalled", "pending"}

\* C18 amended: teardown is invoked only after setup was invoked and the run
\* settled as a success; the setup call may still be pending then.
C18_TeardownAfterSetupCalled ==
    teardownCalls > 0 => (SetupCalled /\ outcome = "resolved")

\* C18's case: the sink finished while setup was pending, and teardown began.
C18_Witness ==
    /\ pc = "teardown"
    /\ setupState = "pending"
    /\ watching = Sink
    /\ finishCount = 1

\* C19: when the factory has rejected, no pipe connection was made, neither
\* setup nor teardown was invoked, and the factory's error is what runScript's
\* catch printed; every failure of the script function is printed, and
\* runScript does not throw.
C19_FactoryErrorIsLoggedOnly ==
    /\ logged = "factoryError"
         => /\ pc = "failed"
            /\ pipes = <<>>
            /\ ~SetupCalled
            /\ teardownCalls = 0
    /\ pc = "failed"
         => /\ logged \in {"factoryError", "setupError", "teardownError"}
            /\ (logged = "factoryError" <=> ~SetupCalled)
            /\ scriptPc # "threw"

\* C19's case: the factory rejected.
C19_Witness == pc = "failed" /\ logged = "factoryError" /\ pipeline = NoPipeline

\* C20: LocalDBFactories.initialize goes on to the credentials exactly when
\* the stage it read is prod (port 9306) or staging (port 8306); otherwise
\* (int, or no stage) it finds no port and throws, having read neither
\* credential; runScript's Config never becomes Ready for stage int.
C20_PortOnlyForProdAndStaging ==
    /\ \A s \in Stages \cup {"undefined", "null"} :
          PortOf(s) # <<>> <=> s \in {"prod", "staging"}
    /\ dbPc \in {"getUser", "getPassword", "done"}
         => /\ stage \in {"prod", "staging"}
            /\ port = IF stage = "prod" THEN <<ProdPort>> ELSE <<StagingPort>>
    /\ dbPc \in {"noPort", "threw"}
         => /\ stage \notin {"prod", "staging"}
            /\ port = <<>>
            /\ Range(dbReads) \cap DbKeys = {}
    /\ (dbPc = "threw" => srcState[Position("LocalDBFactories")] = "failed")
    /\ (Len(sources) = 4 /\ stage = "int") => cfgState # "Ready"

\* C20's case: stage int, the throw, and the initialization rejected.
C20_Witness ==
    /\ stage = "int"
    /\ dbPc = "threw"
    /\ dbReads = <<"stage", "stage">>
    /\ cfgState = "Failed"
    /\ cfgError = "LocalDBFactories"

====
